---------------------------- MODULE Spec2Model ----------------------------
(***************************************************************************)
(* Model of the code-review pipeline: the LangGraph workflow built by      *)
(* create_review_graph (graph/workflow.py), its five node functions        *)
(* (agents/*.py), the gate should_continue_to_agents, and the transient    *)
(* clone directory handled by utils/git_ops.py and IngestorAgent.          *)
(*                                                                         *)
(* A Python dict is a TLA+ function whose DOMAIN is the set of keys that   *)
(* are present.  {**state, 'k': v} is ("k" :> v) @@ state.                 *)
(*                                                                         *)
(* The graph is executed in supersteps: every node scheduled for a step    *)
(* reads the state as it was when the step began, the nodes of a step run  *)
(* concurrently, and the updates they return are merged into the state     *)
(* when all of them have returned.  A node is scheduled for the next step  *)
(* when an edge leads to it from a node that ran in this step.             *)
(*                                                                         *)
(* Spec is one run of main on any input; FairSpec the runs on a local      *)
(* directory with the executor's progress.  NodeSpec calls the analysis    *)
(* node functions on any state, ReleaseSpec makes sequences of releases    *)
(* (cleanup_repository, IngestorAgent.cleanup), ParserSpec calls           *)
(* safe_parse_json (utils/llm_parser.py) on generated texts, and AgentSpec *)
(* is one agent's analysis of one file: the LLM call, with its retries,    *)
(* and _parse_llm_response.                                                *)
(***************************************************************************)
EXTENDS Integers, Sequences, FiniteSets, TLC

\* Largest number of files a scan returns.
MaxFiles == 2

\* Largest number of cleanup_repository calls in a sequence of releases.
MaxCalls == 3

\* Largest number of tokens in the JSON-like part of a generated text.
MaxTextLen == 4

\* Largest number of tokens in the JSON-like part of the response an agent's
\* LLM call returns.
MaxResponseLen == 3

--------------------------------------------------------------------------
(* Python values *)

\* Python's None (what dict.get returns for an absent key).
None == "None"

\* The empty dict {}.
EmptyDict == <<>>

\* d.get(k, default)
Get(d, k, default) == IF k \in DOMAIN d THEN d[k] ELSE default

\* bool(v) for the string-or-None values the nodes test (error, input_path,
\* working_directory).
Truthy(v) == v # None /\ v # ""

--------------------------------------------------------------------------
(* Inputs *)

LocalDir    == "/home/user/project"
MissingDir  == "/home/user/nowhere"
GitUrl      == "https://github.com/user/repo"
\* The directory tempfile.mkdtemp(prefix="code_review_") creates.
CloneDir    == "/tmp/code_review_x"

\* The --path values a run is started with ("" is a missing input_path).
InputPaths == {"", LocalDir, MissingDir, GitUrl}

\* is_git_url, on the inputs of the model.
is_git_url(path) == path = GitUrl

\* A directory beside the temporary directory whose name begins with the
\* temporary directory's name.
LookalikeDir == "/tmp_backup/project"

\* str(path).startswith(tempfile.gettempdir()), on the paths of the model:
\* gettempdir() is "/tmp", and the test compares characters, not path
\* components.
InTempDir(path) == path \in {CloneDir, LookalikeDir}

\* path lies inside tempfile.gettempdir().
UnderTempRoot(path) == path = CloneDir

\* str(e) of an exception: a message, or the empty string (Exception()).
ExcMessages == {"boom", ""}

\* The files a scan can return: the first n of these, sorted by path.
FileNames == <<"a.py", "b.js", "c.py", "d.js">>

\* The 'files' list of a scan that found n files.
FilesOf(n) == SubSeq(FileNames, 1, n)

--------------------------------------------------------------------------
(* The graph *)

Nodes == {"ingestor", "security", "performance", "style", "aggregator"}

\* The analysis branches, in the order the graph declares them.
Branches == <<"security", "performance", "style">>

BranchSet == {"security", "performance", "style"}

\* The order in which add_node declares the nodes.
NodeOrder == <<"ingestor", "security", "performance", "style", "aggregator">>

\* The edges workflow.add_edge declares: they fire whenever their source ran.
StaticEdges_IngestorToAggregator ==
    { <<"ingestor", "performance">>, <<"ingestor", "style">>,
      <<"security", "aggregator">>, <<"performance", "aggregator">>,
      <<"ingestor", "aggregator">> }

StaticEdges ==
    { <<"ingestor", "performance">>, <<"ingestor", "style">>,
      <<"security", "aggregator">>, <<"performance", "aggregator">>,
      <<"style", "aggregator">> }

\* The path map of add_conditional_edges("ingestor", ...): a gate result
\* leads to a node, or to END (no node).
ConditionalTargets(result) == IF result = "continue" THEN {"security"} ELSE {}

\* The findings key each branch owns.
FindingsKey(b) ==
    CASE b = "security"    -> "security_findings"
      [] b = "performance" -> "performance_findings"
      [] b = "style"       -> "style_findings"

\* The warning a branch appends when it fails, with str(e) left out.
WarningOf(b) ==
    CASE b = "security"    -> "Security analysis failed"
      [] b = "performance" -> "Performance analysis failed"
      [] b = "style"       -> "Style analysis failed"


--------------------------------------------------------------------------
(* The filesystem and the transient clone (utils/git_ops.py) *)

\* shutil.rmtree(path, ignore_errors=True): the directory is removed, or an
\* error is ignored and it stays.
rmtree(dirs, path, removed) == IF removed THEN dirs \ {path} ELSE dirs

\* What cleanup_repository(repo_path, force) does, as a log entry.
cleanup_outcome(dirs, repo_path, force, removed) ==
    IF repo_path \notin dirs THEN "missing"
    ELSE IF ~InTempDir(repo_path) /\ ~force THEN "skipped"
    ELSE IF removed THEN "removed" ELSE "failed"

\* The directories that exist after cleanup_repository(repo_path, force).
cleanup_repository(dirs, repo_path, force, removed) ==
    IF repo_path \notin dirs THEN dirs
    ELSE IF ~InTempDir(repo_path) /\ ~force THEN dirs
    ELSE rmtree(dirs, repo_path, removed)

\* The records cleanup_repository logs, by what the call did. rmtree is called
\* with ignore_errors=True, so a deletion that fails returns like one that
\* succeeds and the except clause after it (logger.error) is not entered.
cleanup_messages(outcome) ==
    CASE outcome = "missing" ->
           << [level |-> "warning", msg |-> "Repository path does not exist"] >>
      [] outcome = "skipped" ->
           << [level |-> "warning",
               msg |-> "Skipping cleanup of non-temporary directory"] >>
      [] outcome \in {"removed", "failed"} ->
           << [level |-> "info", msg |-> "Cleaning up repository"],
              [level |-> "info", msg |-> "Cleanup completed"] >>

CloneOutcomes == {"ok", "GitCommandError", "OtherError"}

\* clone_repository(repo_url) with target_dir None: mkdtemp creates the
\* directory, then the clone succeeds, or Repo.clone_from raises
\* GitCommandError (the directory is removed again), or a step after the clone
\* raises something else (reading the head commit of an empty repository
\* raises ValueError), which the except clause does not catch.
clone_repository(dirs, outcome, removed) ==
    LET made == dirs \cup {CloneDir} IN
    CASE outcome = "ok" ->
           [raised |-> FALSE, path |-> CloneDir, is_temp |-> TRUE, dirs |-> made]
      [] outcome = "GitCommandError" ->
           [raised |-> TRUE, path |-> CloneDir, is_temp |-> TRUE,
            dirs |-> rmtree(made, CloneDir, removed)]
      [] outcome = "OtherError" ->
           [raised |-> TRUE, path |-> CloneDir, is_temp |-> TRUE, dirs |-> made]

--------------------------------------------------------------------------
(* IngestorAgent (agents/ingestor.py) *)

\* file_path.suffix.lower(), on the file names of the model.
Extension(name) == IF name \in {"a.py", "c.py"} THEN ".py" ELSE ".js"

RECURSIVE extensions_count(_)
\* extensions_count as the scan loop builds it: one more for the extension of
\* every file appended to files.
extensions_count(files) ==
    IF files = <<>> THEN EmptyDict
    ELSE LET seen == extensions_count(SubSeq(files, 1, Len(files) - 1))
             ext  == Extension(files[Len(files)])
         IN  (ext :> Get(seen, ext, 0) + 1) @@ seen

\* The dict scan_local_directory returns for a directory with n files.
scan_local_directory_ZeroTotal(root, n) ==
    [root_path |-> root, files |-> FilesOf(n), total_files |-> 0,
     extensions |-> extensions_count(FilesOf(n))]

scan_local_directory_CountsSkipped(root, n) ==
    [root_path |-> root, files |-> FilesOf(n), total_files |-> n + 1,
     extensions |-> extensions_count(FilesOf(n))]

scan_local_directory(root, n) ==
    [root_path |-> root, files |-> FilesOf(n), total_files |-> Len(FilesOf(n)),
     extensions |-> extensions_count(FilesOf(n))]

\* What the environment decides during one ingestion.
IngestEnvs ==
    [clone : CloneOutcomes, scan : {"ok", "raise"}, n : 0..MaxFiles,
     msg : ExcMessages, removed : BOOLEAN]

\* The IngestionResult of a failure (IngestorAgent.ingest, except clause),
\* with the filesystem, the agent's temp_directories and the log of
\* cleanup_repository calls.
IngestFailure(msg, dirs, tds, log) ==
    [success |-> FALSE, source_type |-> "unknown", working_directory |-> "",
     file_tree |-> EmptyDict, is_temp |-> FALSE, error |-> msg,
     dirs |-> dirs, temp_directories |-> tds, log |-> log]

\* IngestorAgent._ingest_git_repository, inside ingest's try.
_ingest_git_repository(dirs, env) ==
    LET c == clone_repository(dirs, env.clone, env.removed) IN
    IF c.raised
    THEN IngestFailure(IF env.clone = "GitCommandError" /\ env.msg = ""
                       THEN "Cmd('git') failed" ELSE env.msg,
                       c.dirs, <<>>, <<>>)
    ELSE \* self.temp_directories.append(clone_path)
         IF env.scan = "ok"
         THEN [success |-> TRUE, source_type |-> "git",
               working_directory |-> c.path,
               file_tree |-> scan_local_directory(c.path, env.n),
               is_temp |-> c.is_temp, error |-> None,
               dirs |-> c.dirs, temp_directories |-> <<c.path>>, log |-> <<>>]
         ELSE \* cleanup_repository(clone_path); temp_directories.remove; raise
              IngestFailure(env.msg,
                  cleanup_repository(c.dirs, c.path, FALSE, env.removed),
                  <<>>,
                  << <<c.path, cleanup_outcome(c.dirs, c.path, FALSE, env.removed),
                       FALSE>> >>)

\* IngestorAgent._ingest_local_directory, inside ingest's try.
_ingest_local_directory(directory_path, dirs, env) ==
    IF directory_path \notin dirs
    THEN IngestFailure("Directory does not exist", dirs, <<>>, <<>>)
    ELSE IF env.scan = "raise"
    THEN IngestFailure(env.msg, dirs, <<>>, <<>>)
    ELSE [success |-> TRUE, source_type |-> "local",
          working_directory |-> directory_path,
          file_tree |-> scan_local_directory(directory_path, env.n),
          is_temp |-> FALSE, error |-> None,
          dirs |-> dirs, temp_directories |-> <<>>, log |-> <<>>]

\* IngestorAgent.ingest
ingest(input_path, dirs, env) ==
    IF is_git_url(input_path)
    THEN _ingest_git_repository(dirs, env)
    ELSE _ingest_local_directory(input_path, dirs, env)

RECURSIVE cleanup_all(_, _, _)
\* The loop of IngestorAgent.cleanup over temp_directories: the directories left.
cleanup_all(dirs, tds, removed) ==
    IF tds = <<>> THEN dirs
    ELSE cleanup_all(cleanup_repository(dirs, Head(tds), FALSE, removed),
                     Tail(tds), removed)

RECURSIVE cleanup_log(_, _, _)
\* The loop of IngestorAgent.cleanup over temp_directories: the calls it makes.
cleanup_log(dirs, tds, removed) ==
    IF tds = <<>> THEN <<>>
    ELSE << <<Head(tds), cleanup_outcome(dirs, Head(tds), FALSE, removed),
              FALSE>> >>
         \o cleanup_log(cleanup_repository(dirs, Head(tds), FALSE, removed),
                        Tail(tds), removed)

\* ingestor.temp_directories after ingestor_node's success path
\* (ingestor.temp_directories.clear(), so that __del__ deletes nothing).
TempDirsAfterSuccess_NoClear(tds) == tds

TempDirsAfterSuccess(tds) == <<>>

\* How the call of clone_repository ended in an ingestion of input_path.
clone_result(input_path, env) ==
    IF ~is_git_url(input_path) THEN "not called"
    ELSE CASE env.clone = "ok" -> "returned"
           [] env.clone = "GitCommandError" ->
                IF env.removed THEN "GitCommandError"
                ELSE "GitCommandError, rmtree failed"
           [] env.clone = "OtherError" -> "OtherError"

\* ingestor_node: the update it returns, with the filesystem, the agent
\* object's temp_directories and the cleanup_repository calls it leaves behind.
\* made: whether an IngestorAgent was constructed. ingest catches every
\* Exception itself, so the node's own except clause has nothing to catch.
ingestor_node(state, dirs, env) ==
    LET input_path == Get(state, "input_path", None) IN
    IF ~Truthy(input_path)
    THEN [update |-> ("error" :> "No input_path provided in state")
                     @@ ("file_tree" :> EmptyDict) @@ ("total_files" :> 0)
                     @@ state,
          dirs |-> dirs, temp_directories |-> <<>>, log |-> <<>>,
          made |-> FALSE, success |-> FALSE, clone |-> "not called"]
    ELSE LET result == ingest(input_path, dirs, env) IN
         IF ~result.success
         THEN \* ingestor.cleanup()
              [update |-> ("error" :> result.error)
                          @@ ("file_tree" :> EmptyDict) @@ ("total_files" :> 0)
                          @@ state,
               dirs |-> cleanup_all(result.dirs, result.temp_directories, env.removed),
               temp_directories |-> <<>>,
               log |-> result.log
                       \o cleanup_log(result.dirs, result.temp_directories, env.removed),
               made |-> TRUE, success |-> FALSE,
               clone |-> clone_result(input_path, env)]
         ELSE [update |-> ("file_tree" :> result.file_tree)
                          @@ ("total_files" :> result.file_tree.total_files)
                          @@ ("working_directory" :> result.working_directory)
                          @@ ("source_type" :> result.source_type)
                          @@ ("is_temp_directory" :> result.is_temp)
                          @@ state,
               dirs |-> result.dirs,
               temp_directories |-> TempDirsAfterSuccess(result.temp_directories),
               log |-> result.log,
               made |-> TRUE, success |-> TRUE,
               clone |-> clone_result(input_path, env)]

--------------------------------------------------------------------------
(* The analysis agents (agents/security.py, performance.py, style.py) *)

\* What the generative-text call for one file does: it returns a finding,
\* returns the empty array, or raises.
LLMOutcomes == {"finding", "none", "raise"}

\* What the environment decides during one run of an analysis node: whether
\* agent construction or analyze_directory raises, and the LLM call's outcome
\* for each file.
BranchEnvs(n) == [raises : BOOLEAN, llm : [1..n -> LLMOutcomes]]

\* _analyze_file: the LLM call and the parse are inside a try whose except
\* clause logs and returns []; nothing is recorded in the state.
_analyze_file(b, file, outcome) ==
    IF outcome = "finding" THEN << <<b, file>> >> ELSE <<>>

RECURSIVE analyze_files(_, _, _, _)
\* The loop of analyze_directory from file i on: findings.extend(file_findings).
analyze_files(b, file_list, llm, i) ==
    IF i > Len(file_list) THEN <<>>
    ELSE _analyze_file(b, file_list[i], llm[i])
         \o analyze_files(b, file_list, llm, i + 1)

\* analyze_directory(working_dir, file_list). A failed static-analyzer run
\* (success False) only empties the context given to the LLM.
analyze_directory(b, file_list, llm) == analyze_files(b, file_list, llm, 1)

\* The except clause of an analysis node:
\*   warnings = state.get('warnings', []); warnings.append(warning_msg)
\*   return {'<b>_findings': [], 'warnings': warnings}
\* 'warnings' in the update is the list object of the state, appended in place.
BranchFailureUpdate_SetsError(b, state) ==
    (FindingsKey(b) :> <<>>)
    @@ ("warnings" :> Append(Get(state, "warnings", <<>>), WarningOf(b)))
    @@ ("error" :> WarningOf(b))

BranchFailureUpdate(b, state) ==
    (FindingsKey(b) :> <<>>)
    @@ ("warnings" :> Append(Get(state, "warnings", <<>>), WarningOf(b)))

\* The return of an analysis node's try block.
StyleSuccessUpdate_WrongKey(findings) == ("performance_findings" :> findings)

SecuritySuccessUpdate(findings) == ("security_findings" :> findings)

PerformanceSuccessUpdate_WritesTotal(findings) ==
    ("performance_findings" :> findings) @@ ("total_files" :> Len(findings))

PerformanceSuccessUpdate(findings) == ("performance_findings" :> findings)

StyleSuccessUpdate(findings) == ("style_findings" :> findings)

\* The checks every analysis node makes before its try block.
BranchSkips(state) ==
    \/ Truthy(Get(state, "error", None))
    \/ ~Truthy(Get(state, "working_directory", None))
    \/ Get(Get(state, "file_tree", EmptyDict), "files", <<>>) = <<>>

\* security_node: its skip paths return {**state, 'security_findings': []}.
security_node(state, env) ==
    IF BranchSkips(state) THEN ("security_findings" :> <<>>) @@ state
    ELSE IF env.raises THEN BranchFailureUpdate("security", state)
    ELSE SecuritySuccessUpdate(
             analyze_directory("security", state["file_tree"].files, env.llm))

\* performance_node
performance_node_ClearsError(state, env) ==
    IF BranchSkips(state)
    THEN ("performance_findings" :> <<>>) @@ ("error" :> None)
    ELSE IF env.raises THEN BranchFailureUpdate("performance", state)
    ELSE PerformanceSuccessUpdate(
             analyze_directory("performance", state["file_tree"].files, env.llm))

performance_node(state, env) ==
    IF BranchSkips(state) THEN ("performance_findings" :> <<>>)
    ELSE IF env.raises THEN BranchFailureUpdate("performance", state)
    ELSE PerformanceSuccessUpdate(
             analyze_directory("performance", state["file_tree"].files, env.llm))

\* style_node
style_node(state, env) ==
    IF BranchSkips(state) THEN ("style_findings" :> <<>>)
    ELSE IF env.raises THEN BranchFailureUpdate("style", state)
    ELSE StyleSuccessUpdate(
             analyze_directory("style", state["file_tree"].files, env.llm))

\* The node function of a branch.
BranchNode(b, state, env) ==
    CASE b = "security"    -> security_node(state, env)
      [] b = "performance" -> performance_node(state, env)
      [] b = "style"       -> style_node(state, env)

\* How a run of a branch ended: "skipped" (a check before the try returned),
\* "raised" (the except clause ran), "llm" (some file's LLM call raised and
\* was swallowed in _analyze_file), or "ok".
BranchEnding(state, env) ==
    IF BranchSkips(state) THEN "skipped"
    ELSE IF env.raises THEN "raised"
    ELSE IF \E i \in DOMAIN env.llm : env.llm[i] = "raise" THEN "llm"
    ELSE "ok"

--------------------------------------------------------------------------
(* The aggregator (agents/aggregator.py) *)

ReportPath == "./code_reviews/code_review.md"

\* AggregatorAgent.generate_report: the report, as what it is compiled from.
generate_report(state) ==
    [input_path  |-> Get(state, "input_path", "Unknown"),
     total_files |-> Get(state, "total_files", 0),
     security    |-> Get(state, "security_findings", <<>>),
     performance |-> Get(state, "performance_findings", <<>>),
     style       |-> Get(state, "style_findings", <<>>),
     warnings    |-> Get(state, "warnings", <<>>)]

\* aggregator_node; reportOk: generate_report returns (it raises otherwise).
aggregator_node_PathOnFailure(state, reportOk) ==
    IF Truthy(Get(state, "error", None)) THEN state
    ELSE IF reportOk
    THEN ("final_report" :> generate_report(state))
         @@ ("report_path" :> ReportPath) @@ state
    ELSE ("error" :> "Report generation failed")
         @@ ("report_path" :> ReportPath) @@ state

aggregator_node(state, reportOk) ==
    IF Truthy(Get(state, "error", None)) THEN state
    ELSE IF reportOk
    THEN ("final_report" :> generate_report(state))
         @@ ("report_path" :> ReportPath) @@ state
    ELSE ("error" :> "Report generation failed") @@ state

--------------------------------------------------------------------------
(* The gate (graph/workflow.py) *)

\* should_continue_to_agents: its result, and the dict it was handed as the
\* function leaves it (state['error'] = ... assigns to that dict).
should_continue_to_agents(state) ==
    IF Truthy(Get(state, "error", None))
    THEN [result |-> "END", state |-> state]
    ELSE IF Get(state, "total_files", 0) = 0
    THEN [result |-> "END",
          state |-> ("error" :> "No files found to analyze") @@ state]
    ELSE [result |-> "continue", state |-> state]

--------------------------------------------------------------------------
(* The command-line entry point (main.py) *)

\* main, from the return of graph.invoke on: what it logs and the exit status
\* of the process. Both branches return from main normally, so click ends the
\* process with status 0.
main(final_state) ==
    IF Truthy(Get(final_state, "error", None))
    THEN [logged |-> "Review failed", status |-> 0]
    ELSE IF Truthy(Get(final_state, "report_path", None))
    THEN [logged |-> "Review completed successfully", status |-> 0]
    ELSE [logged |-> "Review completed but no report path found", status |-> 0]

--------------------------------------------------------------------------
(* The parser of generated text (utils/llm_parser.py) *)

(* A text is a sequence of tokens: the markdown fence, the tag json, the
   brackets,
   the comma, a key with its colon ("k": written k:), the literal null, a number
   with more digits than int() converts, a whitespace character and a word
   of prose.  A parsed value is a record: its type ("null", "list", "dict")
   and its items (a list's elements; a dict's value for the key k, if any). *)

\* The markdown fence: three backquotes.
Fence == "<fence>"
Tag   == "json"
Key   == "k:"
Space == " "
Prose == "x"
\* An integer literal of more digits than sys.get_int_max_str_digits():
\* json.loads raises ValueError, not JSONDecodeError, when it converts it.
HugeInt == "99999..."

JsonTokens == {"[", "]", "{", "}", ",", "null", Key, HugeInt}

\* None, the value of the literal null.
NullValue == [type |-> "null", items |-> <<>>]

\* expected_type(): [] or {}
EmptyInstance(expected_type_) == [type |-> expected_type_, items |-> <<>>]

\* What json.loads did: it returned a value, or raised.
Loaded(v, next) == [kind |-> "value", value |-> v, next |-> next]
Raised(exc)     == [kind |-> exc, value |-> NullValue, next |-> 0]

RECURSIVE SkipSpace(_, _)
\* The first position from i on that holds no whitespace (Len(s) + 1 if none).
SkipSpace(s, i) ==
    IF i <= Len(s) /\ s[i] = Space THEN SkipSpace(s, i + 1) ELSE i

RECURSIVE scan_once(_, _)
RECURSIVE JSONArray(_, _, _)
RECURSIVE JSONObject(_, _, _)

\* The decoder's scan of one value at position i.
scan_once(s, i) ==
    IF i > Len(s) THEN Raised("JSONDecodeError")
    ELSE CASE s[i] = "null"  -> Loaded(NullValue, i + 1)
           [] s[i] = HugeInt -> Raised("ValueError")
           [] s[i] = "["     ->
                LET j == SkipSpace(s, i + 1) IN
                IF j <= Len(s) /\ s[j] = "]"
                THEN Loaded([type |-> "list", items |-> <<>>], j + 1)
                ELSE JSONArray(s, j, <<>>)
           [] s[i] = "{"     ->
                LET j == SkipSpace(s, i + 1) IN
                IF j <= Len(s) /\ s[j] = "}"
                THEN Loaded([type |-> "dict", items |-> <<>>], j + 1)
                ELSE JSONObject(s, j, <<>>)
           [] OTHER          -> Raised("JSONDecodeError")

\* The elements of an array from position i on, where a value is expected.
JSONArray(s, i, acc) ==
    LET r == scan_once(s, i) IN
    IF r.kind # "value" THEN r
    ELSE LET j == SkipSpace(s, r.next) IN
         IF j > Len(s) THEN Raised("JSONDecodeError")
         ELSE IF s[j] = "]"
         THEN Loaded([type |-> "list", items |-> Append(acc, r.value)], j + 1)
         ELSE IF s[j] = ","
         THEN JSONArray(s, SkipSpace(s, j + 1), Append(acc, r.value))
         ELSE Raised("JSONDecodeError")

\* The members of an object from position i on, where a key is expected; a
\* later value for the key replaces an earlier one.
JSONObject(s, i, acc) ==
    IF i > Len(s) \/ s[i] # Key THEN Raised("JSONDecodeError")
    ELSE LET r == scan_once(s, SkipSpace(s, i + 1)) IN
         IF r.kind # "value" THEN r
         ELSE LET j == SkipSpace(s, r.next) IN
              IF j > Len(s) THEN Raised("JSONDecodeError")
              ELSE IF s[j] = "}"
              THEN Loaded([type |-> "dict", items |-> <<r.value>>], j + 1)
              ELSE IF s[j] = ","
              THEN JSONObject(s, SkipSpace(s, j + 1), <<r.value>>)
              ELSE Raised("JSONDecodeError")

\* json.loads(s): one value, with whitespace around it and nothing else.
json_loads(s) ==
    LET r == scan_once(s, SkipSpace(s, 1)) IN
    IF r.kind # "value" THEN r
    ELSE IF SkipSpace(s, r.next) <= Len(s) THEN Raised("JSONDecodeError")
    ELSE Loaded(r.value, 0)

RECURSIVE json_dumps(_)
RECURSIVE DumpItems(_, _)

\* The items of a list from the i-th on, separated by ", ".
DumpItems(items, i) ==
    IF i > Len(items) THEN <<>>
    ELSE (IF i > 1 THEN <<",", Space>> ELSE <<>>)
         \o json_dumps(items[i]) \o DumpItems(items, i + 1)

\* json.dumps(v), with its default separators ", " and ": ".
json_dumps(v) ==
    CASE v.type = "null" -> <<"null">>
      [] v.type = "list" -> <<"[">> \o DumpItems(v.items, 1) \o <<"]">>
      [] v.type = "dict" ->
           <<"{">>
           \o (IF v.items = <<>> THEN <<>>
               ELSE <<Key, Space>> \o json_dumps(v.items[1]))
           \o <<"}">>

RECURSIVE lstrip(_)
lstrip(s) == IF s # <<>> /\ Head(s) = Space THEN lstrip(Tail(s)) ELSE s

RECURSIVE rstrip(_, _)
\* s.rstrip() (ch the whitespace) and s.rstrip(',')
rstrip(s, ch) ==
    IF s # <<>> /\ s[Len(s)] = ch THEN rstrip(SubSeq(s, 1, Len(s) - 1), ch) ELSE s

\* s.strip()
strip(s) == rstrip(lstrip(s), Space)

\* s.find(tok) and s.rfind(tok), as positions from 1; 0 where Python gives -1.
find(s, tok) ==
    IF \E i \in DOMAIN s : s[i] = tok
    THEN CHOOSE i \in DOMAIN s : s[i] = tok /\ \A j \in 1..(i - 1) : s[j] # tok
    ELSE 0

rfind(s, tok) ==
    IF \E i \in DOMAIN s : s[i] = tok
    THEN CHOOSE i \in DOMAIN s : s[i] = tok /\ \A j \in (i + 1)..Len(s) : s[j] # tok
    ELSE 0

\* s.count(tok)
count(s, tok) == Cardinality({ i \in DOMAIN s : s[i] = tok })

\* tok * n
Repeat(tok, n) == [i \in 1..n |-> tok]

\* The positions at which re.search can match an opening fence that a later
\* fence closes: with the tag json directly after it (tagged), or any.
FenceStarts(s, tagged) ==
    { i \in DOMAIN s :
        /\ s[i] = Fence
        /\ tagged => (i + 1 <= Len(s) /\ s[i + 1] = Tag)
        /\ \E j \in DOMAIN s : j > i + (IF tagged THEN 1 ELSE 0) /\ s[j] = Fence }

\* re.search for fence, json, \s*(.*?)\s*, fence and for fence, \s*(.*?)\s*,
\* fence, with re.DOTALL: group(1).strip() of the leftmost match, whose lazy
\* group ends at the first fence after the opening one.
FenceInterior(s, tagged) ==
    LET i     == CHOOSE k \in FenceStarts(s, tagged) :
                     \A m \in FenceStarts(s, tagged) : k <= m
        first == i + (IF tagged THEN 2 ELSE 1)
        j     == CHOOSE k \in first..Len(s) :
                     s[k] = Fence /\ \A m \in first..(k - 1) : s[m] # Fence
    IN strip(SubSeq(s, first, j - 1))

Open(expected_type_)  == IF expected_type_ = "list" THEN "[" ELSE "{"
Close(expected_type_) == IF expected_type_ = "list" THEN "]" ELSE "}"

\* Step 1 of safe_parse_json: json_str, the candidate to parse.
Candidate_FirstFenceOfAnyKind(text_, expected_type_) ==
    IF FenceStarts(text_, FALSE) # {} THEN FenceInterior(text_, FALSE)
    ELSE LET start_idx == find(text_, Open(expected_type_))
             end_idx   == rfind(text_, Close(expected_type_))
         IN IF start_idx # 0
            THEN IF end_idx # 0 /\ end_idx > start_idx
                 THEN strip(SubSeq(text_, start_idx, end_idx))
                 ELSE strip(SubSeq(text_, start_idx, Len(text_)))
            ELSE strip(text_)

Candidate(text_, expected_type_) ==
    IF FenceStarts(text_, TRUE) # {} THEN FenceInterior(text_, TRUE)
    ELSE IF FenceStarts(text_, FALSE) # {} THEN FenceInterior(text_, FALSE)
    ELSE LET start_idx == find(text_, Open(expected_type_))
             end_idx   == rfind(text_, Close(expected_type_))
         IN IF start_idx # 0
            THEN IF end_idx # 0 /\ end_idx > start_idx
                 THEN strip(SubSeq(text_, start_idx, end_idx))
                 ELSE strip(SubSeq(text_, start_idx, Len(text_)))
            ELSE strip(text_)

\* Step 4 of safe_parse_json: the string the repair attempt parses.
Repaired(json_str, expected_type_) ==
    LET temp_str     == rstrip(rstrip(json_str, Space), ",")
        open_braces  == count(temp_str, "{")
        close_braces == count(temp_str, "}")
        braced       == IF open_braces > close_braces
                        THEN temp_str \o Repeat("}", open_braces - close_braces)
                        ELSE temp_str
    IN IF expected_type_ = "list" THEN Append(braced, "]") ELSE braced

\* What a call did: it returned value, or raised exc.
Returned(v)      == [kind |-> "returned", value |-> v]
Propagated(exc)  == [kind |-> exc, value |-> NullValue]

\* safe_parse_json(text, expected_type) for expected_type list or dict. The
\* first json.loads is in a try that catches json.JSONDecodeError only; the
\* repair attempt's is in a try with a bare except.
safe_parse_json(text_, expected_type_) ==
    IF text_ = <<>> THEN Returned(EmptyInstance(expected_type_))
    ELSE LET json_str == Candidate(text_, expected_type_) IN
         IF json_str = <<>> THEN Returned(EmptyInstance(expected_type_))
         ELSE LET first == json_loads(json_str) IN
              IF first.kind = "value" THEN Returned(first.value)
              ELSE IF first.kind # "JSONDecodeError" THEN Propagated(first.kind)
              ELSE IF json_str[Len(json_str)] # Close(expected_type_)
              THEN LET second == json_loads(Repaired(json_str, expected_type_)) IN
                   IF second.kind = "value" THEN Returned(second.value)
                   ELSE Returned(EmptyInstance(expected_type_))
              ELSE Returned(EmptyInstance(expected_type_))

\* json_str when safe_parse_json(text, expected_type) leaves step 1 (empty
\* when it returned before, on an empty text).
located(text_, expected_type_) ==
    IF text_ = <<>> THEN <<>> ELSE Candidate(text_, expected_type_)

--------------------------------------------------------------------------
(* One file's analysis by an agent: the LLM call and _parse_llm_response *)

\* The file an agent analyses.
AnalysedFile == FileNames[1]

\* The argument of tenacity's stop_after_attempt in StyleAgent's @retry.
stop_after_attempt == 3

\* How many times _analyze_file calls llm.invoke before it gives up:
\* StyleAgent calls it through _get_llm_response, decorated with
\* @retry(stop=stop_after_attempt(3), reraise=True); SecurityAgent and
\* PerformanceAgent call self.llm.invoke directly, once.
InvokeAttempts(b) == IF b = "style" THEN stop_after_attempt ELSE 1

\* bool(v) of a parsed value: None, [] and {} are false.
TruthyValue(v) == v.type # "null" /\ v.items # <<>>

\* isinstance(v, dict)
IsDict(v) == v.type = "dict"

\* finding.get(key, default) on a parsed dict, whose only possible key is k.
DictGet(finding, key, default) ==
    IF key = "k" /\ finding.items # <<>> THEN finding.items[1] ELSE default

\* The validated finding an agent builds from a dict of the parsed value.
validated_finding(b, finding, file_path) ==
    CASE b = "security" ->
           [file           |-> DictGet(finding, "file", file_path),
            line           |-> DictGet(finding, "line", 0),
            severity       |-> DictGet(finding, "severity", "MEDIUM"),
            confidence     |-> DictGet(finding, "confidence", "MEDIUM"),
            issue_type     |-> DictGet(finding, "issue_type", "SECURITY_ISSUE"),
            description    |-> DictGet(finding, "description", ""),
            recommendation |-> DictGet(finding, "recommendation", ""),
            cwe_id         |-> DictGet(finding, "cwe_id", None),
            owasp_category |-> DictGet(finding, "owasp_category", None)]
      [] b = "performance" ->
           [file                  |-> DictGet(finding, "file", file_path),
            line                  |-> DictGet(finding, "line", None),
            issue_type            |-> DictGet(finding, "issue_type",
                                              "PERFORMANCE_ISSUE"),
            description           |-> DictGet(finding, "description", ""),
            complexity_score      |-> DictGet(finding, "complexity_score", None),
            impact                |-> DictGet(finding, "impact", "MEDIUM"),
            current_complexity    |-> DictGet(finding, "current_complexity", None),
            optimized_complexity  |-> DictGet(finding, "optimized_complexity", None),
            recommendation        |-> DictGet(finding, "recommendation", ""),
            estimated_improvement |-> DictGet(finding, "estimated_improvement", None)]
      [] b = "style" ->
           [file               |-> DictGet(finding, "file", file_path),
            line               |-> DictGet(finding, "line", None),
            issue_type         |-> DictGet(finding, "issue_type", "STYLE_ISSUE"),
            description        |-> DictGet(finding, "description", ""),
            severity           |-> DictGet(finding, "severity", "MEDIUM"),
            recommendation     |-> DictGet(finding, "recommendation", ""),
            principle_violated |-> DictGet(finding, "principle_violated", None),
            impact_on_maintainability |->
                DictGet(finding, "impact_on_maintainability", "")]

\* The elements _parse_llm_response keeps: the loop skips (continue) every
\* element that is not a dict.
KeepDicts(elements) == SelectSeq(elements, IsDict)

\* _parse_llm_response(response, file_path) of agent b: what safe_parse_json
\* returned is wrapped in a list if it is not one (dropped if it is falsy),
\* and every dict of the list becomes a validated finding. An exception of
\* safe_parse_json passes through.
_parse_llm_response(b, response, file_path) ==
    LET r == safe_parse_json(response, "list") IN
    IF r.kind # "returned" THEN [kind |-> r.kind, findings |-> <<>>]
    ELSE LET elements == IF r.value.type = "list" THEN r.value.items
                         ELSE IF TruthyValue(r.value) THEN <<r.value>>
                         ELSE <<>>
             dicts    == KeepDicts(elements)
         IN [kind |-> "returned",
             findings |-> [i \in 1..Len(dicts) |->
                              validated_finding(b, dicts[i], file_path)]]

--------------------------------------------------------------------------
(* The state store: ReviewState and its merge *)

\* The state before anything is written: the append-only 'warnings' list is
\* there and empty, every other key is absent.
EmptyState == ("warnings" :> <<>>)

\* One update merged into the state: 'warnings' is appended to, every other
\* key is overwritten.
ApplyUpdate(chan, upd) ==
    [k \in DOMAIN chan \cup DOMAIN upd |->
        IF k \notin DOMAIN upd THEN chan[k]
        ELSE IF k = "warnings" /\ k \in DOMAIN chan THEN chan[k] \o upd[k]
        ELSE upd[k]]

\* The update a node returned, as the merge reads it: a node that returns
\* state's own 'warnings' list returns a reference to the list object every
\* node of the step was handed, so the merge sees the contents that object
\* has when the step ends (shared), not those it had when the node returned.
Resolve(upd, shared) ==
    IF "warnings" \in DOMAIN upd
    THEN ("warnings" :> shared) @@ upd
    ELSE upd

RECURSIVE MergeStep(_, _, _, _, _)
\* The updates of the nodes that ran in a step, merged in declaration order.
MergeStep(chan, ws, ran, shared, i) ==
    IF i > Len(NodeOrder) THEN chan
    ELSE MergeStep(IF NodeOrder[i] \in ran
                   THEN ApplyUpdate(chan, Resolve(ws[NodeOrder[i]], shared))
                   ELSE chan,
                   ws, ran, shared, i + 1)

\* The nodes scheduled after a step in which the nodes of ran ran.
NextNodes(ran, gate) ==
    { e[2] : e \in { d \in StaticEdges : d[1] \in ran } }
    \cup (IF "ingestor" \in ran THEN ConditionalTargets(gate) ELSE {})

--------------------------------------------------------------------------
(* One run of graph.invoke(initial_state) *)

VARIABLES
    channels,          \* the review state: key -> value, for the keys present
    scheduled,         \* the nodes of the current step
    status,            \* node -> "idle" | "running" | "done", within the step
    writes,            \* node -> the update the node returned when it last ran
    phase,             \* "running" | "done": whether invoke has returned
    gateResult,        \* "none" | "continue" | "END"
    gateState,         \* the dict the gate was handed, as the gate left it
    dirs,              \* the directories that exist
    temp_directories,  \* IngestorAgent.temp_directories of the node's agent
    ingestorObj,       \* "none" | "live" | "cleaned" | "garbage" | "finalized"
    cleanupLog,        \* the cleanup_repository calls: <<path, outcome, force>>
    execCount,         \* node -> how many times the node function was called
    ingested,          \* "no" | "ok" | "failed": how ingestor_node ended
    cloneResult,       \* how the run's call of clone_repository ended
    ending,            \* branch -> how its run ended ("none" before)
    completionOrder,   \* the branches in the order they returned
    exit_status,       \* <<>> while main runs, then <<the process's exit status>>
    text,              \* safe_parse_json: the text it is called with
    expected_type,     \* safe_parse_json: "list" | "dict"
    parsed,            \* safe_parse_json: what the calls made so far returned
    json_str,          \* safe_parse_json: the candidate of the last call
    analysing,         \* _analyze_file: "idle" or where the call stands
    attempts,          \* _analyze_file: the calls of llm.invoke made so far
    findings           \* _analyze_file: the findings it returns

\* clone_repository returned a transient directory.
cloned == cloneResult = "returned"

\* The variables of an agent's analysis of one file and of a call of
\* safe_parse_json.
parserVars ==
    <<text, expected_type, parsed, json_str, analysing, attempts, findings>>

vars == <<channels, scheduled, status, writes, phase, gateResult, gateState,
          dirs, temp_directories, ingestorObj, cleanupLog, execCount,
          ingested, cloneResult, ending, completionOrder, exit_status, parserVars>>

\* main: initial_state = {"input_path": path, "output_dir": ...}
InitialState(path) ==
    ("input_path" :> path) @@ ("output_dir" :> "./code_reviews")

\* The state invoke starts from: the initial state merged into the empty one.
StartState(path) == ApplyUpdate(EmptyState, InitialState(path))

\* No analysis of a file and no call of safe_parse_json is under way.
ParserIdle ==
    /\ text = <<>> /\ expected_type = "list" /\ parsed = <<>> /\ json_str = <<>>
    /\ analysing = "idle" /\ attempts = 0 /\ findings = <<>>

Init ==
    /\ \E path \in InputPaths : channels = StartState(path)
    /\ scheduled = {"ingestor"}
    /\ status = [n \in Nodes |-> "idle"]
    /\ writes = [n \in Nodes |-> EmptyDict]
    /\ phase = "running"
    /\ gateResult = "none"
    /\ gateState = EmptyDict
    /\ dirs = {LocalDir}
    /\ temp_directories = <<>>
    /\ ingestorObj = "none"
    /\ cleanupLog = <<>>
    /\ execCount = [n \in Nodes |-> 0]
    /\ ingested = "no"
    /\ cloneResult = "not called"
    /\ ending = [b \in BranchSet |-> "none"]
    /\ completionOrder = <<>>
    /\ exit_status = <<>>
    /\ ParserIdle

\* A scheduled node's function is called with the state of the step.
NodeStart(n) ==
    /\ phase = "running"
    /\ n \in scheduled
    /\ status[n] = "idle"
    /\ status' = [status EXCEPT ![n] = "running"]
    /\ execCount' = [execCount EXCEPT ![n] = @ + 1]
    /\ UNCHANGED <<channels, scheduled, writes, phase, gateResult, gateState,
                   dirs, temp_directories, ingestorObj, cleanupLog, ingested,
                   cloneResult, ending, completionOrder>>
    /\ UNCHANGED <<exit_status, parserVars>>

\* ingestor_node returns; its local IngestorAgent becomes garbage.
IngestorReturn ==
    /\ status["ingestor"] = "running"
    /\ \E env \in IngestEnvs :
         LET r == ingestor_node(channels, dirs, env) IN
         /\ writes' = [writes EXCEPT !["ingestor"] = r.update]
         /\ dirs' = r.dirs
         /\ temp_directories' = r.temp_directories
         /\ cleanupLog' = cleanupLog \o r.log
         /\ ingestorObj' = IF r.made THEN "garbage" ELSE "none"
         /\ ingested' = IF r.success THEN "ok" ELSE "failed"
         /\ cloneResult' = r.clone
    /\ status' = [status EXCEPT !["ingestor"] = "done"]
    /\ UNCHANGED <<channels, scheduled, phase, gateResult, gateState,
                   execCount, ending, completionOrder>>
    /\ UNCHANGED <<exit_status, parserVars>>

\* IngestorAgent.__del__: self.cleanup(), whenever the collector runs it.
IngestorDel ==
    /\ ingestorObj = "garbage"
    /\ \E removed \in BOOLEAN :
         /\ dirs' = cleanup_all(dirs, temp_directories, removed)
         /\ cleanupLog' = cleanupLog \o cleanup_log(dirs, temp_directories, removed)
    /\ temp_directories' = <<>>
    /\ ingestorObj' = "finalized"
    /\ UNCHANGED <<channels, scheduled, status, writes, phase, gateResult,
                   gateState, execCount, ingested, cloneResult, ending,
                   completionOrder>>
    /\ UNCHANGED <<exit_status, parserVars>>

\* The conditional edge after the ingestor: the gate is handed a dict read
\* afresh from the state with the ingestor's update merged in; what it assigns
\* to that dict stays in that dict.
Gate ==
    /\ status["ingestor"] = "done"
    /\ gateResult = "none"
    /\ LET g == should_continue_to_agents(
                    ApplyUpdate(channels,
                        Resolve(writes["ingestor"], channels["warnings"]))) IN
         /\ gateResult' = g.result
         /\ gateState' = g.state
    /\ UNCHANGED <<channels, scheduled, status, writes, phase, dirs,
                   temp_directories, ingestorObj, cleanupLog, execCount,
                   ingested, cloneResult, ending, completionOrder>>
    /\ UNCHANGED <<exit_status, parserVars>>

\* An analysis node returns. In its except clause it appends its warning to
\* the 'warnings' list of the state, the list object its siblings hold too.
BranchReturn(b) ==
    /\ status[b] = "running"
    /\ \E env \in BranchEnvs(Len(Get(Get(channels, "file_tree", EmptyDict),
                                     "files", <<>>))) :
         /\ writes' = [writes EXCEPT ![b] = BranchNode(b, channels, env)]
         /\ ending' = [ending EXCEPT ![b] = BranchEnding(channels, env)]
         /\ channels' =
              IF BranchEnding(channels, env) = "raised"
              THEN [channels EXCEPT !["warnings"] =
                       BranchFailureUpdate(b, channels)["warnings"]]
              ELSE channels
    /\ status' = [status EXCEPT ![b] = "done"]
    /\ completionOrder' = Append(completionOrder, b)
    /\ UNCHANGED <<scheduled, phase, gateResult, gateState, dirs,
                   temp_directories, ingestorObj, cleanupLog, execCount,
                   ingested, cloneResult>>
    /\ UNCHANGED <<exit_status, parserVars>>

\* aggregator_node returns.
AggregatorReturn ==
    /\ status["aggregator"] = "running"
    /\ \E reportOk \in BOOLEAN :
         writes' = [writes EXCEPT !["aggregator"] =
                       aggregator_node(channels, reportOk)]
    /\ status' = [status EXCEPT !["aggregator"] = "done"]
    /\ UNCHANGED <<channels, scheduled, phase, gateResult, gateState, dirs,
                   temp_directories, ingestorObj, cleanupLog, execCount,
                   ingested, cloneResult, ending, completionOrder>>
    /\ UNCHANGED <<exit_status, parserVars>>

\* The end of a step: every node of the step has returned (and the gate has
\* been evaluated if the ingestor ran); the updates are merged and the nodes
\* the edges lead to are scheduled. With none to schedule, invoke returns.
Barrier ==
    /\ phase = "running"
    /\ \A n \in scheduled : status[n] = "done"
    /\ "ingestor" \in scheduled => gateResult # "none"
    /\ channels' = MergeStep(channels, writes, scheduled, channels["warnings"], 1)
    /\ scheduled' = NextNodes(scheduled, gateResult)
    /\ status' = [n \in Nodes |-> "idle"]
    /\ phase' = IF NextNodes(scheduled, gateResult) = {} THEN "done" ELSE "running"
    /\ UNCHANGED <<writes, gateResult, gateState, dirs, temp_directories,
                   ingestorObj, cleanupLog, execCount, ingested, cloneResult,
                   ending, completionOrder>>
    /\ UNCHANGED <<exit_status, parserVars>>

\* main, before graph.invoke: a missing GOOGLE_API_KEY or an invalid
\* LLM_PROVIDER raises ValueError, which main's except clause logs and
\* re-raises; the process exits with status 1 and the graph never starts.
MainConfigError ==
    /\ phase = "running"
    /\ exit_status = <<>>
    /\ execCount["ingestor"] = 0
    /\ phase' = "aborted"
    /\ exit_status' = <<1>>
    /\ UNCHANGED <<channels, scheduled, status, writes, gateResult, gateState,
                   dirs, temp_directories, ingestorObj, cleanupLog, execCount,
                   ingested, cloneResult, ending, completionOrder>>
    /\ UNCHANGED parserVars

\* main, after graph.invoke returned final_state.
MainReturn ==
    /\ phase = "done"
    /\ exit_status = <<>>
    /\ exit_status' = <<main(channels).status>>
    /\ UNCHANGED <<channels, scheduled, status, writes, phase, gateResult,
                   gateState, dirs, temp_directories, ingestorObj, cleanupLog,
                   execCount, ingested, cloneResult, ending, completionOrder>>
    /\ UNCHANGED parserVars

Next ==
    \/ MainConfigError
    \/ \E n \in Nodes : NodeStart(n)
    \/ IngestorReturn
    \/ IngestorDel
    \/ Gate
    \/ \E b \in BranchSet : BranchReturn(b)
    \/ AggregatorReturn
    \/ Barrier
    \/ MainReturn

Spec == Init /\ [][Next]_vars

\* What the executor does on its own once invoke is called: it calls every
\* scheduled node, every node function returns, the gate is evaluated and the
\* step ends; then main returns. (Not the collector's __del__, and not the
\* configuration error, which may or may not occur.)
Progress ==
    \/ \E n \in Nodes : NodeStart(n)
    \/ IngestorReturn
    \/ Gate
    \/ \E b \in BranchSet : BranchReturn(b)
    \/ AggregatorReturn
    \/ Barrier
    \/ MainReturn

\* main is started with --path naming a local directory.
InitLocal == Init /\ channels["input_path"] = LocalDir

\* The runs on a local directory, with the executor's progress.
FairSpec == InitLocal /\ [][Next]_vars /\ WF_vars(Progress)

--------------------------------------------------------------------------
(* The analysis node functions called on any state *)

\* The states a node function can be handed: 'error' absent, empty or set,
\* 'working_directory' absent, empty or set, 'file_tree' absent, {} or a scan
\* result, and 'warnings' empty or holding an earlier warning.
NodeInputs ==
    { e @@ w @@ f @@ ("warnings" :> ws) @@ ("input_path" :> LocalDir) :
        e  \in {EmptyDict, ("error" :> ""), ("error" :> "boom")},
        w  \in {EmptyDict, ("working_directory" :> ""),
                ("working_directory" :> LocalDir)},
        f  \in {EmptyDict, ("file_tree" :> EmptyDict)}
               \cup { ("file_tree" :> scan_local_directory(LocalDir, n)) :
                        n \in 0..MaxFiles },
        ws \in {<<>>, <<"earlier warning">>} }

\* The three node functions are about to be called with one of these states.
NodeInit ==
    /\ channels \in NodeInputs
    /\ scheduled = BranchSet
    /\ status = [n \in Nodes |-> "idle"]
    /\ writes = [n \in Nodes |-> EmptyDict]
    /\ phase = "running"
    /\ gateResult = "none"
    /\ gateState = EmptyDict
    /\ dirs = {LocalDir}
    /\ temp_directories = <<>>
    /\ ingestorObj = "none"
    /\ cleanupLog = <<>>
    /\ execCount = [n \in Nodes |-> 0]
    /\ ingested = "no"
    /\ cloneResult = "not called"
    /\ ending = [b \in BranchSet |-> "none"]
    /\ completionOrder = <<>>
    /\ exit_status = <<>>
    /\ ParserIdle

NodeNext ==
    \/ \E n \in BranchSet : NodeStart(n)
    \/ \E b \in BranchSet : BranchReturn(b)

NodeSpec == NodeInit /\ [][NodeNext]_vars

--------------------------------------------------------------------------
(* Releases of directories: cleanup_repository and IngestorAgent.cleanup *)

\* The paths cleanup_repository is called with.
ReleasePaths == {LocalDir, MissingDir, CloneDir, LookalikeDir}

\* An IngestorAgent that tracks its clone or nothing, in a filesystem where
\* the clone, the local directory and the lookalike directory exist or not.
ReleaseInit ==
    /\ dirs \in SUBSET {LocalDir, CloneDir, LookalikeDir}
    /\ temp_directories \in {<<>>, <<CloneDir>>}
    /\ ingestorObj = "live"
    /\ cleanupLog = <<>>
    /\ channels = EmptyState
    /\ scheduled = {}
    /\ status = [n \in Nodes |-> "idle"]
    /\ writes = [n \in Nodes |-> EmptyDict]
    /\ phase = "idle"
    /\ gateResult = "none"
    /\ gateState = EmptyDict
    /\ execCount = [n \in Nodes |-> 0]
    /\ ingested = "no"
    /\ cloneResult = "not called"
    /\ ending = [b \in BranchSet |-> "none"]
    /\ completionOrder = <<>>
    /\ exit_status = <<>>
    /\ ParserIdle

\* cleanup_repository(path, force) is called.
CleanupRepositoryCall ==
    /\ Len(cleanupLog) < MaxCalls
    /\ \E path \in ReleasePaths, force \in BOOLEAN, removed \in BOOLEAN :
         /\ dirs' = cleanup_repository(dirs, path, force, removed)
         /\ cleanupLog' = Append(cleanupLog,
                <<path, cleanup_outcome(dirs, path, force, removed), force>>)
    /\ UNCHANGED <<channels, scheduled, status, writes, phase, gateResult,
                   gateState, temp_directories, ingestorObj, execCount,
                   ingested, cloneResult, ending, completionOrder>>
    /\ UNCHANGED <<exit_status, parserVars>>

\* IngestorAgent.cleanup() is called on the agent, for the first time or again.
AgentCleanup ==
    /\ ingestorObj \in {"live", "cleaned"}
    /\ ingestorObj' = "cleaned"
    /\ Len(cleanupLog) < MaxCalls
    /\ \E removed \in BOOLEAN :
         /\ dirs' = cleanup_all(dirs, temp_directories, removed)
         /\ cleanupLog' = cleanupLog \o cleanup_log(dirs, temp_directories, removed)
    /\ temp_directories' = <<>>
    /\ UNCHANGED <<channels, scheduled, status, writes, phase, gateResult,
                   gateState, execCount, ingested, cloneResult, ending,
                   completionOrder>>
    /\ UNCHANGED <<exit_status, parserVars>>

ReleaseNext ==
    \/ CleanupRepositoryCall
    \/ AgentCleanup

ReleaseSpec == ReleaseInit /\ [][ReleaseNext]_vars

--------------------------------------------------------------------------
(* Calls of safe_parse_json *)

\* The start of a list of records, up to the comma after its first record.
FirstRecord == <<"[", "{", Key, "null", "}", ",">>

\* The sequences of n JSON tokens.
TokenSeqs(n) == [1..n -> JsonTokens]

\* The texts a model produces around a JSON-like core: the core alone, in a
\* fence, in a fence tagged json with whitespace inside, in a tagged fence
\* that is never closed, between words of prose, in a tagged fence after an
\* untagged one, in a tagged or an untagged fence after bare brackets, or as
\* the rest of a list whose first record is complete.
Wrappings(core) ==
    { core,
      <<Fence>> \o core \o <<Fence>>,
      <<Fence, Tag, Space>> \o core \o <<Space, Fence>>,
      <<Fence, Tag, Space>> \o core,
      <<Prose, Space>> \o core \o <<Space, Prose>>,
      <<Fence, Prose, Fence, Space, Fence, Tag, Space>> \o core \o <<Space, Fence>>,
      <<"[", "]", Space, Fence, Tag, Space>> \o core \o <<Fence>>,
      <<"{", "}", Space, Fence>> \o core \o <<Fence>>,
      FirstRecord \o core }

ExpectedTypes == {"list", "dict"}

\* A stage is about to call safe_parse_json(text, expected_type).
ParserInit ==
    /\ \E n \in 0..MaxTextLen : \E core \in TokenSeqs(n) :
           text \in Wrappings(core)
    /\ expected_type \in ExpectedTypes
    /\ parsed = <<>>
    /\ json_str = <<>>
    /\ analysing = "idle"
    /\ attempts = 0
    /\ findings = <<>>
    /\ channels = EmptyState
    /\ scheduled = {}
    /\ status = [n \in Nodes |-> "idle"]
    /\ writes = [n \in Nodes |-> EmptyDict]
    /\ phase = "idle"
    /\ gateResult = "none"
    /\ gateState = EmptyDict
    /\ dirs = {}
    /\ temp_directories = <<>>
    /\ ingestorObj = "none"
    /\ cleanupLog = <<>>
    /\ execCount = [n \in Nodes |-> 0]
    /\ ingested = "no"
    /\ cloneResult = "not called"
    /\ ending = [b \in BranchSet |-> "none"]
    /\ completionOrder = <<>>
    /\ exit_status = <<>>

\* safe_parse_json(text, expected_type) returns or raises.
Parse ==
    /\ parsed = <<>>
    /\ parsed' = <<safe_parse_json(text, expected_type)>>
    /\ json_str' = located(text, expected_type)
    /\ UNCHANGED <<text, expected_type, analysing, attempts, findings>>
    /\ UNCHANGED <<channels, scheduled, status, writes, phase, gateResult,
                   gateState, dirs, temp_directories, ingestorObj, cleanupLog,
                   execCount, ingested, cloneResult, ending, completionOrder,
                   exit_status>>

\* safe_parse_json(json.dumps(v), expected_type) for the value v the first
\* call returned.
Reparse ==
    /\ Len(parsed) = 1
    /\ parsed[1].kind = "returned"
    /\ parsed' = Append(parsed,
                    safe_parse_json(json_dumps(parsed[1].value), expected_type))
    /\ json_str' = located(json_dumps(parsed[1].value), expected_type)
    /\ UNCHANGED <<text, expected_type, analysing, attempts, findings>>
    /\ UNCHANGED <<channels, scheduled, status, writes, phase, gateResult,
                   gateState, dirs, temp_directories, ingestorObj, cleanupLog,
                   execCount, ingested, cloneResult, ending, completionOrder,
                   exit_status>>

ParserNext ==
    \/ Parse
    \/ Reparse

ParserSpec == ParserInit /\ [][ParserNext]_vars

--------------------------------------------------------------------------
(* An agent's _analyze_file on one file *)

\* The agent of node b has built its prompt for AnalysedFile and is about to
\* call the LLM.
AgentInit ==
    /\ \E b \in BranchSet :
          /\ scheduled = {b}
          /\ status = [n \in Nodes |-> IF n = b THEN "running" ELSE "idle"]
    /\ analysing = "calling"
    /\ attempts = 0
    /\ findings = <<>>
    /\ text = <<>>
    /\ expected_type = "list"
    /\ parsed = <<>>
    /\ json_str = <<>>
    /\ channels = EmptyState
    /\ writes = [n \in Nodes |-> EmptyDict]
    /\ phase = "running"
    /\ gateResult = "none"
    /\ gateState = EmptyDict
    /\ dirs = {}
    /\ temp_directories = <<>>
    /\ ingestorObj = "none"
    /\ cleanupLog = <<>>
    /\ execCount = [n \in Nodes |-> 0]
    /\ ingested = "no"
    /\ cloneResult = "not called"
    /\ ending = [b \in BranchSet |-> "none"]
    /\ completionOrder = <<>>
    /\ exit_status = <<>>

\* llm.invoke returns a response: response.content is the text.
LlmReturns(b) ==
    /\ b \in scheduled
    /\ analysing = "calling"
    /\ attempts' = attempts + 1
    /\ \E n \in 0..MaxResponseLen : \E core \in TokenSeqs(n) :
           text' \in Wrappings(core)
    /\ analysing' = "parsing"
    /\ UNCHANGED <<expected_type, parsed, json_str, findings>>
    /\ UNCHANGED <<channels, scheduled, status, writes, phase, gateResult,
                   gateState, dirs, temp_directories, ingestorObj, cleanupLog,
                   execCount, ingested, cloneResult, ending, completionOrder,
                   exit_status>>

\* llm.invoke raises: the call is made again if the agent retries and has
\* attempts left; otherwise the exception reaches the except clause of
\* _analyze_file, which logs it and returns [].
LlmRaises(b) ==
    /\ b \in scheduled
    /\ analysing = "calling"
    /\ attempts' = attempts + 1
    /\ analysing' = IF attempts + 1 < InvokeAttempts(b)
                    THEN "calling" ELSE "llm failed"
    /\ findings' = <<>>
    /\ UNCHANGED <<text, expected_type, parsed, json_str>>
    /\ UNCHANGED <<channels, scheduled, status, writes, phase, gateResult,
                   gateState, dirs, temp_directories, ingestorObj, cleanupLog,
                   execCount, ingested, cloneResult, ending, completionOrder,
                   exit_status>>

\* _parse_llm_response(response, file_path) runs and _analyze_file returns
\* its findings, or [] from the except clause if the parser raised.
ParseLlmResponse(b) ==
    /\ b \in scheduled
    /\ analysing = "parsing"
    /\ parsed' = <<safe_parse_json(text, "list")>>
    /\ json_str' = located(text, "list")
    /\ LET r == _parse_llm_response(b, text, AnalysedFile) IN
         /\ findings' = r.findings
         /\ analysing' = IF r.kind = "returned" THEN "done" ELSE "parse failed"
    /\ UNCHANGED <<text, expected_type, attempts>>
    /\ UNCHANGED <<channels, scheduled, status, writes, phase, gateResult,
                   gateState, dirs, temp_directories, ingestorObj, cleanupLog,
                   execCount, ingested, cloneResult, ending, completionOrder,
                   exit_status>>

AgentNext ==
    \E b \in BranchSet :
        \/ LlmReturns(b)
        \/ LlmRaises(b)
        \/ ParseLlmResponse(b)

AgentSpec == AgentInit /\ [][AgentNext]_vars

--------------------------------------------------------------------------
(* Properties *)

AnalysisAndAggregation == BranchSet \cup {"aggregator"}

\* The run was admitted by the gate.
Admitted == gateResult = "continue"

\* The branches whose except clause ran.
RaisedBranches == { b \in BranchSet : ending[b] = "raised" }

\* The cleanup_repository calls made on path.
CleanupCallsOn(path) == { i \in DOMAIN cleanupLog : cleanupLog[i][1] = path }

\* How often msg occurs in the list ws.
Occurrences(ws, msg) == Cardinality({ i \in DOMAIN ws : ws[i] = msg })

\* C1: whenever the gate decides HALT, none of the security, performance,
\* style and aggregator nodes is executed, and the run returns the state as it
\* was after ingestion.
C1_HaltRunsNoStage ==
    gateResult = "END" =>
        /\ \A n \in AnalysisAndAggregation : execCount[n] = 0
        /\ phase = "done" =>
               channels = ApplyUpdate(StartState(channels["input_path"]),
                                      writes["ingestor"])

\* C2: a run whose clone produced a transient directory has, when it has ended
\* and the agent object is gone, called cleanup_repository on that directory
\* exactly once.
C2_TransientReleasedOnce ==
    (phase = "done" /\ cloned /\ ingestorObj = "finalized") =>
        Cardinality(CleanupCallsOn(CloneDir)) = 1

\* C3: after a successful ingestion the working directory exists as long as
\* the aggregator has not started, whenever the agent object's __del__ runs.
C3_WorkingDirectoryKept ==
    (ingested = "ok" /\ execCount["aggregator"] = 0) =>
        writes["ingestor"]["working_directory"] \in dirs

\* C3 witness: a cloned repository, the agent object already finalized, a
\* branch still running, and the clone still there.
C3_Witness ==
    /\ ingested = "ok" /\ cloned /\ ingestorObj = "finalized"
    /\ \E b \in BranchSet : status[b] = "running"
    /\ execCount["aggregator"] = 0
    /\ CloneDir \in dirs

\* C4: in an admitted run the state the aggregator is handed holds, under each
\* branch's key, exactly the list that branch returned, whatever the order in
\* which the branches returned.
C4_NoLostFindings ==
    (Admitted /\ "aggregator" \in scheduled) =>
        \A b \in BranchSet :
            /\ FindingsKey(b) \in DOMAIN channels
            /\ channels[FindingsKey(b)] = Get(writes[b], FindingsKey(b), <<>>)

\* C4 witness: the branches returned in the reverse of their declaration
\* order, each with findings, and the aggregator is running.
C4_Witness ==
    /\ Admitted /\ status["aggregator"] = "running"
    /\ completionOrder = <<"style", "performance", "security">>
    /\ \A b \in BranchSet :
           FindingsKey(b) \in DOMAIN channels /\ channels[FindingsKey(b)] # <<>>

\* C5: in an admitted run the aggregator is called at most once, only when all
\* three branches have been called and have returned, and once by the end.
C5_AggregatorOnceAfterBarrier ==
    Admitted =>
        /\ execCount["aggregator"] <= 1
        /\ execCount["aggregator"] = 1 =>
               \A b \in BranchSet :
                   execCount[b] = 1 /\ ending[b] # "none" /\ status[b] # "running"
        /\ \A b \in BranchSet : status[b] = "running" =>
               status["aggregator"] # "running"
        /\ phase = "done" => execCount["aggregator"] = 1

\* C5 witness: the aggregator running in an admitted run.
C5_Witness ==
    Admitted /\ status["aggregator"] = "running" /\ Len(completionOrder) = 3

\* C6: when exactly one branch fails (its except clause runs, or an LLM call
\* of it raises) and the other two succeed, and the report is generated, the
\* run ends without error, with the report, the other two lists as returned,
\* the failed category's list empty and exactly one warning.
C6_OneFailedBranch ==
    (/\ phase = "done" /\ Admitted
     /\ Cardinality({ b \in BranchSet : ending[b] \in {"raised", "llm"} }) = 1
     /\ Cardinality({ b \in BranchSet : ending[b] = "ok" }) = 2
     /\ Get(channels, "error", None) # "Report generation failed") =>
        /\ ~Truthy(Get(channels, "error", None))
        /\ "final_report" \in DOMAIN channels
        /\ \A b \in BranchSet :
               channels[FindingsKey(b)] =
                   IF ending[b] = "ok" THEN writes[b][FindingsKey(b)] ELSE <<>>
        /\ Len(channels["warnings"]) = 1

\* C7: a branch whose except clause ran returned exactly its own key with an
\* empty list and the warnings list ending in its one warning; no error is set
\* by it, and every branch and the aggregator are still called once.
C7_BranchFailureContained ==
    \A b \in RaisedBranches :
        /\ DOMAIN writes[b] = {FindingsKey(b), "warnings"}
        /\ writes[b][FindingsKey(b)] = <<>>
        /\ writes[b]["warnings"] # <<>>
        /\ writes[b]["warnings"][Len(writes[b]["warnings"])] = WarningOf(b)
        /\ Occurrences(writes[b]["warnings"], WarningOf(b)) = 1
        /\ "aggregator" \in scheduled => ~Truthy(Get(channels, "error", None))
        /\ phase = "done" =>
               /\ \A n \in AnalysisAndAggregation : execCount[n] = 1
               /\ \A c \in BranchSet : ending[c] # "none"

\* C7 witness: the run has ended with a report although the performance node
\* raised, and the security node succeeded.
C7_Witness ==
    /\ phase = "done"
    /\ ending["performance"] = "raised" /\ ending["security"] = "ok"
    /\ "final_report" \in DOMAIN channels

RECURSIVE WarningsInDeclarationOrder(_)
\* The warnings of the raised branches from Branches[i] on, one each.
WarningsInDeclarationOrder(i) ==
    IF i > Len(Branches) THEN <<>>
    ELSE (IF Branches[i] \in RaisedBranches
          THEN <<WarningOf(Branches[i])>> ELSE <<>>)
         \o WarningsInDeclarationOrder(i + 1)

\* C8: when two or three branches fail, the warnings the aggregator is handed
\* are the warnings from before the fan-out (none), then each failed branch's
\* warning once, in the order security, performance, style.
C8_WarningsMergedOnce ==
    (Admitted /\ "aggregator" \in scheduled /\ Cardinality(RaisedBranches) >= 2) =>
        channels["warnings"] = WarningsInDeclarationOrder(1)

\* C9: when ingestion succeeds with zero files (and report generation does
\* not fail), the final state has the no-files-found error and no report.
C9_NoFilesSetsError ==
    (/\ phase = "done" /\ ingested = "ok" /\ channels["total_files"] = 0
     /\ Get(channels, "error", None) # "Report generation failed") =>
        /\ Get(channels, "error", None) = "No files found to analyze"
        /\ "final_report" \notin DOMAIN channels
        /\ "report_path" \notin DOMAIN channels

\* C10: when ingestion fails, the run ends with a non-empty error, no files,
\* an empty file_tree and no report, and no analysis or aggregation node was
\* called.
C10_IngestionFailureHalts ==
    (phase = "done" /\ ingested = "failed") =>
        /\ Truthy(Get(channels, "error", None))
        /\ channels["total_files"] = 0
        /\ channels["file_tree"] = EmptyDict
        /\ "final_report" \notin DOMAIN channels
        /\ "report_path" \notin DOMAIN channels
        /\ \A n \in AnalysisAndAggregation : execCount[n] = 0

\* The aggregator's generate_report raised in this run.
ReportFailed ==
    Get(writes["aggregator"], "error", None) = "Report generation failed"

\* The keys that hold what the branches collected.
CollectedKeys ==
    {"security_findings", "performance_findings", "style_findings", "warnings"}

\* C11: when generate_report raises in the aggregator, the final state has the
\* report-generation-failure error, neither final_report nor report_path, and
\* every findings list and the warnings as the aggregator was handed them
\* (the aggregator returns {**state, 'error': ...}, so its update holds them).
C11_ReportFailureKeepsCollected ==
    (phase = "done" /\ ReportFailed) =>
        /\ channels["error"] = "Report generation failed"
        /\ "final_report" \notin DOMAIN channels
        /\ "report_path" \notin DOMAIN channels
        /\ \A k \in CollectedKeys \cap DOMAIN writes["aggregator"] :
               channels[k] = writes["aggregator"][k]

\* The report keys present in the dict d.
ReportKeys(d) == {"final_report", "report_path"} \cap DOMAIN d

\* C12: final_report and report_path are written by the aggregator only, both
\* or neither, by a single call of it made when every scheduled branch has
\* returned; a final state holds both or neither, and neither when its error
\* is non-empty.
C12_ReportWrittenOnceByAggregator ==
    /\ \A n \in Nodes \ {"aggregator"} : ReportKeys(writes[n]) = {}
    /\ ReportKeys(writes["aggregator"]) \in {{}, {"final_report", "report_path"}}
    /\ ReportKeys(channels) \in {{}, {"final_report", "report_path"}}
    /\ execCount["aggregator"] <= 1
    /\ (ReportKeys(writes["aggregator"]) # {} \/ ReportKeys(channels) # {}) =>
           /\ execCount["aggregator"] = 1
           /\ \A b \in {"performance", "style"} : execCount[b] = 1
           /\ Admitted => execCount["security"] = 1
           /\ \A b \in BranchSet :
                  status[b] # "running" /\ (execCount[b] = 1 => ending[b] # "none")
    /\ ReportKeys(channels) # {} =>
           channels["final_report"] = writes["aggregator"]["final_report"]
    /\ (phase = "done" /\ Truthy(Get(channels, "error", None))) =>
           ReportKeys(channels) = {}

\* C12 witness: an admitted run has ended with both report keys written, and
\* the security branch was the last of the three to return.
C12_Witness ==
    /\ phase = "done" /\ Admitted
    /\ ReportKeys(channels) = {"final_report", "report_path"}
    /\ Len(completionOrder) = 3 /\ completionOrder[3] = "security"

\* C13: when main has returned after a run, the exit status is non-zero if the
\* final state has a terminal error and zero if it has none.
C13_ExitStatusReflectsError ==
    (phase = "done" /\ exit_status # <<>>) =>
        (Truthy(Get(channels, "error", None)) <=> exit_status[1] # 0)

\* No stage failed: no branch's except clause ran, no LLM call raised, and
\* generate_report did not raise.
NoStageFailed ==
    /\ \A b \in BranchSet : ending[b] \notin {"raised", "llm"}
    /\ ~ReportFailed

\* A local directory was ingested and its scan returned at least one file.
LocalInputWithFiles ==
    /\ channels["input_path"] = LocalDir
    /\ ingested = "ok"
    /\ Get(Get(channels, "file_tree", EmptyDict), "files", <<>>) # <<>>

\* C17: once invoke has been called on a local directory it returns; and when
\* the scan found at least one file and no stage failed, the state it returns
\* has no error, total_files > 0 and a final_report.
C17_LocalRunCompletes ==
    /\ (execCount["ingestor"] = 1 /\ channels["input_path"] = LocalDir)
           ~> (phase = "done")
    /\ []((phase = "done" /\ LocalInputWithFiles /\ NoStageFailed) =>
             /\ ~Truthy(Get(channels, "error", None))
             /\ channels["total_files"] > 0
             /\ "final_report" \in DOMAIN channels)

\* C17 witness: invoke has returned for a local directory with files, every
\* branch ran to its normal return with findings, and the report was generated.
C17_Witness ==
    /\ phase = "done" /\ LocalInputWithFiles /\ NoStageFailed
    /\ \A b \in BranchSet : ending[b] = "ok" /\ channels[FindingsKey(b)] # <<>>
    /\ "final_report" \in DOMAIN channels

\* The state as it was when the ingestor's step ended.
PostIngestionSnapshot ==
    ApplyUpdate(StartState(channels["input_path"]), writes["ingestor"])

\* C19: while a branch of the fan-out has not yet returned, the state the
\* branches were handed (the 'warnings' list included) is the post-ingestion
\* snapshot, whatever the branches that already returned have done.
C19_BranchesLeaveStateAlone ==
    (phase = "running" /\ \E b \in scheduled \cap BranchSet : status[b] # "done") =>
        channels = PostIngestionSnapshot

\* 'error' is set (present and not None) in the dict d.
ErrorSet(d) == Get(d, "error", None) # None

\* A step in which 'error' keeps its value, or changes only where the ingestor's
\* or the aggregator's update is merged, taking the value that update holds;
\* and a non-empty error stays as it is.
ErrorStep ==
    /\ Truthy(Get(channels, "error", None)) =>
           Get(channels', "error", None) = channels["error"]
    /\ ErrorSet(channels) => ErrorSet(channels')
    /\ Get(channels', "error", None) # Get(channels, "error", None) =>
           \E n \in {"ingestor", "aggregator"} :
               /\ scheduled = {n}
               /\ channels'["error"] = Get(writes[n], "error", None)

\* C20: an error that is set is never cleared or emptied, 'error' is set only
\* where the ingestor's or the aggregator's update is merged (the gate's
\* assignment stays in the gate's own dict), and no branch's update holds
\* 'error'.
C20_ErrorSticky ==
    /\ [][ErrorStep]_vars
    /\ [](\A b \in BranchSet : "error" \notin DOMAIN writes[b])

\* C20 witness: the run has ended with the error the failed ingestion set,
\* after the performance and style nodes and the aggregator ran.
C20_Witness ==
    /\ phase = "done" /\ ingested = "failed"
    /\ Truthy(Get(channels, "error", None))
    /\ channels["error"] = writes["ingestor"]["error"]
    /\ execCount["performance"] = 1 /\ execCount["aggregator"] = 1

\* C14: of two cleanup_repository calls on the same transient path, the first
\* of which found the directory there and deleted it, the later one logs no
\* warning (it does not find the path missing) and deletes
\* nothing; and an agent whose cleanup() has been called tracks nothing, so
\* that calling cleanup() again makes no cleanup_repository call.
C14_SecondReleaseSilent ==
    /\ \A i, j \in DOMAIN cleanupLog :
           (/\ i < j
            /\ cleanupLog[i][1] = cleanupLog[j][1]
            /\ InTempDir(cleanupLog[i][1])
            /\ cleanupLog[i][2] = "removed") =>
               cleanupLog[j][2] \notin {"missing", "removed"}
    /\ ingestorObj = "cleaned" =>
           /\ temp_directories = <<>>
           /\ cleanup_log(dirs, temp_directories, TRUE) = <<>>
           /\ cleanup_all(dirs, temp_directories, TRUE) = dirs

\* C18: the update every analysis node returns, on every path, holds its own
\* findings key and apart from that only 'warnings'.
C18_BranchWritesOwnKeyOnly ==
    \A b \in BranchSet :
        status[b] = "done" =>
            /\ FindingsKey(b) \in DOMAIN writes[b]
            /\ DOMAIN writes[b] \subseteq {FindingsKey(b), "warnings"}

\* C15: a call of safe_parse_json never raises: whatever the text and the
\* expected type, it returns a value.
C15_ParserNeverRaises ==
    \A i \in DOMAIN parsed : parsed[i].kind = "returned"

\* The first call returned a value that json.loads had parsed (it did not
\* fall back to the empty instance on a text it could not parse).
ParsedAValue ==
    /\ parsed # <<>> /\ parsed[1].kind = "returned"
    /\ text # <<>> /\ Candidate(text, expected_type) # <<>>
    /\ \/ json_loads(Candidate(text, expected_type)).kind = "value"
       \/ /\ json_loads(Candidate(text, expected_type)).kind = "JSONDecodeError"
          /\ json_loads(Repaired(Candidate(text, expected_type),
                                  expected_type)).kind = "value"

\* C16: when the first call returned a parsed value v, the call on
\* json.dumps(v) with the same expected type returns v.
C16_ParserIdempotent ==
    (Len(parsed) = 2 /\ ParsedAValue) =>
        parsed[2] = parsed[1]

\* The keys ingestion owns.
IngestionKeys ==
    {"input_path", "source_type", "working_directory", "file_tree", "total_files"}

\* The step of the ingestor has ended: its update is merged into the state.
AfterIngestion == ingested # "no" /\ "ingestor" \notin scheduled

\* C21: once ingestion has completed, every key that ingestion owns
\* ('input_path', 'source_type', 'working_directory', 'file_tree',
\* 'total_files') has in the state, at every later moment and in the final
\* state, the value it had in what ingestor_node returned: no gate, analysis
\* branch or aggregator changes, adds or removes it.
C21_IngestionKeysFrozen ==
    AfterIngestion =>
        \A k \in IngestionKeys :
            /\ (k \in DOMAIN channels) <=> (k \in DOMAIN writes["ingestor"])
            /\ Get(channels, k, None) = Get(writes["ingestor"], k, None)
            /\ gateState # EmptyDict =>
                   Get(gateState, k, None) = Get(writes["ingestor"], k, None)

\* A clone with files was ingested and all three branches and the aggregator
\* have run on it, each branch reaching its LLM, by the time invoke returned.
C21_Witness ==
    /\ phase = "done"
    /\ Admitted
    /\ channels["source_type"] = "git"
    /\ channels["total_files"] = MaxFiles
    /\ \A b \in BranchSet : ending[b] \in {"ok", "llm"}
    /\ execCount["aggregator"] = 1
    /\ C21_IngestionKeysFrozen

RECURSIVE SumCounts(_, _)
\* The sum of the counts d holds for the keys of ks.
SumCounts(d, ks) ==
    IF ks = {} THEN 0
    ELSE LET k == CHOOSE x \in ks : TRUE IN d[k] + SumCounts(d, ks \ {k})

\* total_files, the files list and the per-extension counts of state agree.
CountsAgree(state) ==
    /\ state["total_files"] = Len(state["file_tree"].files)
    /\ state["total_files"] =
           SumCounts(state["file_tree"].extensions,
                     DOMAIN state["file_tree"].extensions)

\* C29: in the update a successful ingestion returns, and in the state from
\* then on, 'total_files' is the length of file_tree['files'] and the sum of
\* the per-extension counts; so in a run the gate admitted no branch takes a
\* skip path (the no-files check of the nodes agrees with the gate's
\* total_files == 0).
C29_TotalFilesIsFileCount ==
    ingested = "ok" =>
        /\ CountsAgree(writes["ingestor"])
        /\ AfterIngestion => CountsAgree(channels)
        /\ Admitted => \A b \in BranchSet : ending[b] # "skipped"

\* An admitted run over files of two extensions in which every branch went on
\* to its analysis.
C29_Witness ==
    /\ ingested = "ok"
    /\ Admitted
    /\ AfterIngestion
    /\ channels["total_files"] = MaxFiles
    /\ Cardinality(DOMAIN channels["file_tree"].extensions) = 2
    /\ \A b \in BranchSet : ending[b] \in {"ok", "llm", "raised"}

\* Every deletion the run attempted removed its directory.
NoDeletionFailed ==
    /\ cloneResult # "GitCommandError, rmtree failed"
    /\ \A i \in 1..Len(cleanupLog) : cleanupLog[i][2] # "failed"

\* C30: when the ingestion of a remote source has failed, at the clone
\* command, at a step of clone_repository after the clone command, or at the
\* scan, then from the return of ingestor_node on the transient directory
\* clone_repository created does not exist and temp_directories is empty
\* (deletions that the filesystem refused set aside).
C30_FailedRemoteIngestionLeavesNothing ==
    (/\ ingested = "failed"
     /\ is_git_url(channels["input_path"])
     /\ NoDeletionFailed)
    => (CloneDir \notin dirs /\ temp_directories = <<>>)

\* The cleanup_repository calls a step made.
NewCleanupCalls == { cleanupLog'[i] : i \in (Len(cleanupLog) + 1)..Len(cleanupLog') }

\* C22: a call cleanup_repository(path, force=False) changes the filesystem
\* only when path lies under the transient root; for any other path (the
\* local input directory, a directory whose name merely begins with the
\* transient root's name) the directories that exist stay as they are. A call
\* with force=True on an existing path removes it, unless the filesystem
\* refuses the deletion.
C22_UnforcedCleanupOnlyUnderTempRoot ==
    [][ \A call \in NewCleanupCalls :
          /\ (~call[3] /\ ~UnderTempRoot(call[1])) => dirs' = dirs
          /\ (call[3] /\ call[1] \in dirs /\ call[2] # "failed")
                 => call[1] \notin dirs' ]_vars

\* The cleanup_repository calls whose deletion the filesystem refused.
FailedDeletions == { i \in 1..Len(cleanupLog) : cleanupLog[i][2] = "failed" }

\* C23: a deletion of a transient directory that fails is logged (a warning
\* or an error record names the failure) and swallowed: the call returns, the
\* agent's cleanup goes on and ends with no tracked directory, and the update
\* ingestor_node returns is the same whether its deletions succeed or fail.
C23_CleanupFailureLoggedAndSwallowed ==
    /\ \A i \in FailedDeletions :
           \E j \in DOMAIN cleanup_messages(cleanupLog[i][2]) :
               cleanup_messages(cleanupLog[i][2])[j].level \in {"warning", "error"}
    /\ ingestorObj \in {"cleaned", "finalized"} => temp_directories = <<>>
    /\ status["ingestor"] = "running" =>
           \A env \in IngestEnvs :
               ingestor_node(channels, dirs, env).update
                   = ingestor_node(channels, dirs,
                                   [env EXCEPT !.removed = ~@]).update

\* The least position of a non-empty set of positions.
Least(S) == CHOOSE i \in S : \A j \in S : i <= j

\* The tokens of s after position from up to the next fence, without the
\* whitespace around them.
UpToNextFence(s, from) ==
    strip(SubSeq(s, from + 1,
                 Least({ k \in (from + 1)..Len(s) : s[k] = Fence }) - 1))

\* The opening fences of s that a later fence closes, and those of them that
\* carry the tag json.
CompleteFences(s) ==
    { i \in 1..Len(s) : s[i] = Fence /\ \E k \in (i + 1)..Len(s) : s[k] = Fence }

TaggedFences(s) ==
    { i \in 1..(Len(s) - 1) :
        s[i] = Fence /\ s[i + 1] = Tag /\ \E k \in (i + 2)..Len(s) : s[k] = Fence }

\* The positions of tok in s.
Positions(s, tok) == { i \in 1..Len(s) : s[i] = tok }

\* C24: the candidate safe_parse_json parses is chosen in this order of
\* preference: the interior of the first fence tagged json, whatever precedes
\* it; with no tagged fence, the interior of the first fence; with no complete
\* fence, the slice from the first opening bracket of the expected container
\* to its last closing bracket after that, or to the end of the text when no
\* closing bracket follows.
C24_CandidatePreferenceOrder ==
    (Len(parsed) = 1 /\ text # <<>>) =>
        LET opens  == Positions(text, Open(expected_type))
            closes == Positions(text, Close(expected_type))
        IN  IF TaggedFences(text) # {}
            THEN json_str = UpToNextFence(text, Least(TaggedFences(text)) + 1)
            ELSE IF CompleteFences(text) # {}
            THEN json_str = UpToNextFence(text, Least(CompleteFences(text)))
            ELSE opens # {} =>
                   json_str =
                     strip(SubSeq(text, Least(opens),
                        IF \E c \in closes : c > Least(opens)
                        THEN CHOOSE c \in closes : \A d \in closes : d <= c
                        ELSE Len(text)))

\* A text with an untagged fence and then a fence tagged json was parsed:
\* the candidate came from the tagged fence, not from the fence before it.
C24_Witness ==
    /\ Len(parsed) = 1
    /\ TaggedFences(text) # {}
    /\ CompleteFences(text) # {}
    /\ Least(CompleteFences(text)) < Least(TaggedFences(text))
    /\ json_str = <<"[", "null", "]">>
    /\ parsed[1].kind = "returned"
    /\ parsed[1].value.type = "list"

\* The ways to end a text that was cut off: what the position of the cut
\* still needs (nothing, a value, or a key with its value), then closing
\* brackets.
Completions(n) ==
    { need \o closing :
        need \in {<<>>, <<"null">>, <<Key, "null">>},
        closing \in UNION { [1..k -> {"]", "}"}] : k \in 0..n } }

\* text is a JSON list cut off after the comma that follows its first record:
\* it starts with FirstRecord, is not a complete JSON text, and some ending
\* makes it a list.
TruncatedAfterFirstRecord(s) ==
    /\ Len(s) >= Len(FirstRecord)
    /\ SubSeq(s, 1, Len(FirstRecord)) = FirstRecord
    /\ json_loads(s).kind = "JSONDecodeError"
    /\ \E c \in Completions(Len(s) - Len(FirstRecord) + 1) :
           LET r == json_loads(s \o c) IN
           r.kind = "value" /\ r.value.type = "list"

\* The record FirstRecord holds.
FirstRecordValue == [type |-> "dict", items |-> <<NullValue>>]

\* C25: for a list cut off anywhere after its first complete record, the one
\* repair attempt (trailing comma stripped, a '}' appended for every
\* unmatched '{', the list's ']' appended, one more parse) makes
\* safe_parse_json return a list that contains at least that first record.
C25_TruncatedListKeepsFirstRecord ==
    (/\ Len(parsed) >= 1
     /\ expected_type = "list"
     /\ TruncatedAfterFirstRecord(text))
    => /\ parsed[1].kind = "returned"
       /\ parsed[1].value.type = "list"
       /\ Len(parsed[1].value.items) >= 1
       /\ parsed[1].value.items[1] = FirstRecordValue

\* C28: whatever the text, the value safe_parse_json returns has the shape of
\* the expected container: a list when expected_type is list, a dict when it
\* is dict.
C28_ReturnsExpectedShape ==
    \A i \in 1..Len(parsed) :
        parsed[i].kind = "returned" => parsed[i].value.type = expected_type

\* The keys every finding must carry, for the agent of node b.
RequiredKeys(b) ==
    {"file", "line", "issue_type", "description", "recommendation",
     IF b = "performance" THEN "impact" ELSE "severity"}

\* The agent whose analysis the state is about.
TheAgent == CHOOSE b \in BranchSet : b \in scheduled

\* C26: when _parse_llm_response has returned, it returned as many findings
\* as the parsed value has elements (one for a value that is not a list), no
\* element being dropped, and every finding has all required keys, 'file'
\* being the analysed file's path when the element named none.
C26_NoElementDropped ==
    (analysing = "done" /\ parsed[1].value.type = "list") =>
        /\ Len(findings) = Len(parsed[1].value.items)
        /\ \A i \in 1..Len(findings) :
               /\ RequiredKeys(TheAgent) \subseteq DOMAIN findings[i]
               /\ findings[i].file = AnalysedFile

\* C27: every agent makes its LLM call for a file at most three times, goes
\* on to the response of the first attempt that succeeds, and gives the file
\* up (no findings) only after the third attempt has failed.
C27_BoundedRetryAroundLlmCall ==
    /\ attempts <= stop_after_attempt
    /\ analysing = "llm failed" => (attempts = stop_after_attempt /\ findings = <<>>)
    /\ analysing \in {"parsing", "done", "parse failed"} => attempts >= 1

==========================================================================
